---- MODULE Spec2Model ----
(***************************************************************************)
(* Model of the MongoDB tools of the ApsaraDB-for-MongoDB MCP server:      *)
(*   utils.py   get_mongodb_connection_configuration (cached configuration)*)
(*   server.py  list_databases, get_top_reusable_space_collections         *)
(*   server.py  the OpenAPI tools: get_audit_log_from_sls, describe_*,      *)
(*              allocate_public_network_address, create_db_instance         *)
(* The MongoDB server (its catalog and what each request answers) and the  *)
(* process environment are the tools' inputs and are part of the state.    *)
(***************************************************************************)
EXTENDS Integers, Sequences, FiniteSets, TLC

VARIABLES
    env,            \* os.environ restricted to the six MONGODB_* variables
    global_config,  \* utils.global_config
    server,         \* the MongoDB server the descriptor leads to
    call,           \* the tool invocation that ran last and its inputs
    config_ret,     \* what get_mongodb_connection_configuration did in that call
    result,         \* what that invocation returned or raised
    open_clients,   \* MongoClient handles created and not closed
    nCalls,         \* number of tool invocations so far
    api_call,       \* inputs of the last OpenAPI tool invocation, and how the cloud answers
    api_trace       \* SDK clients built and requests sent by that invocation

vars == <<env, global_config, server, call, config_ret, result, open_clients, nCalls,
          api_call, api_trace>>

----------------------------------------------------------------------------
(* Bounds of the model *)

MaxDbs == 2
MaxColls == 3
MaxTopN == 3
MaxCalls == 2
MaxPeriod == 1

----------------------------------------------------------------------------
(* Python values *)

PyNone == "<None>"

\* bool(s) of an Optional[str]
Truthy(s) == s # PyNone /\ s # ""

Min(a, b) == IF a <= b THEN a ELSE b
Max(a, b) == IF a >= b THEN a ELSE b

Reverse(s) == [i \in 1..Len(s) |-> s[Len(s) + 1 - i]]

----------------------------------------------------------------------------
(* utils.py *)

CS == "MONGODB_CONNECTION_STRING"
Params == <<"host", "port", "user", "password", "database">>
EnvOf(key) ==
    CASE key = "host" -> "MONGODB_HOST"
      [] key = "port" -> "MONGODB_PORT"
      [] key = "user" -> "MONGODB_USER"
      [] key = "password" -> "MONGODB_PASSWORD"
      [] key = "database" -> "MONGODB_DATABASE"
EnvNames == {CS} \cup {EnvOf(Params[i]) : i \in 1..Len(Params)}

\* The values get_mongodb_connection_configuration hands out.
NoneConfig == [form |-> "None"]
StrConfig(s) == [form |-> "str", value |-> s]
DictConfig(e) ==
    [form |-> "dict", host |-> e[EnvOf("host")], port |-> e[EnvOf("port")],
     user |-> e[EnvOf("user")], password |-> e[EnvOf("password")],
     database |-> e[EnvOf("database")]]

\* `if global_config:`  None and "" are falsy, a five-key dict is truthy
TruthyConfig(c) ==
    CASE c.form = "None" -> FALSE
      [] c.form = "str" -> c.value # ""
      [] c.form = "dict" -> TRUE

\* missing_params: the keys whose value is None or ""
missing_params(config) == {i \in 1..Len(Params) : ~Truthy(config[Params[i]])}

\* Mutant: the cache test of lines 25-26 is lost, the environment is re-read.
get_config_reread(gc, e) ==
    IF Truthy(e[CS])
    THEN [exc |-> "", ret |-> StrConfig(e[CS]), global_config |-> StrConfig(e[CS])]
    ELSE IF missing_params(DictConfig(e)) # {}
         THEN [exc |-> "ValueError", ret |-> NoneConfig, global_config |-> gc]
         ELSE [exc |-> "", ret |-> DictConfig(e), global_config |-> DictConfig(e)]

\* Mutant: the dict is stored in the cache before the completeness check.
get_config_partial(gc, e) ==
    IF TruthyConfig(gc)
    THEN [exc |-> "", ret |-> gc, global_config |-> gc]
    ELSE IF Truthy(e[CS])
         THEN [exc |-> "", ret |-> StrConfig(e[CS]), global_config |-> StrConfig(e[CS])]
         ELSE IF missing_params(DictConfig(e)) # {}
              THEN [exc |-> "ValueError", ret |-> NoneConfig,
                    global_config |-> DictConfig(e)]
              ELSE [exc |-> "", ret |-> DictConfig(e), global_config |-> DictConfig(e)]

\* get_mongodb_connection_configuration() run with cache gc and environment e:
\* the exception it raises ("" for none), its return value, the cache afterwards.
get_mongodb_connection_configuration(gc, e) ==
    IF TruthyConfig(gc)
    THEN [exc |-> "", ret |-> gc, global_config |-> gc]
    ELSE IF Truthy(e[CS])
         THEN [exc |-> "", ret |-> StrConfig(e[CS]), global_config |-> StrConfig(e[CS])]
         ELSE IF missing_params(DictConfig(e)) # {}
              THEN [exc |-> "ValueError", ret |-> NoneConfig, global_config |-> gc]
              ELSE [exc |-> "", ret |-> DictConfig(e), global_config |-> DictConfig(e)]

\* `if connection_string is None: connection_string = get_mongodb_connection_configuration()`
resolve(connection_string, gc, e) ==
    IF connection_string = PyNone
    THEN [called |-> TRUE] @@ get_mongodb_connection_configuration(gc, e)
    ELSE [called |-> FALSE, exc |-> "", ret |-> StrConfig(connection_string),
          global_config |-> gc]

----------------------------------------------------------------------------
(* The MongoDB server *)

Values == {-1, 1}

\* What the server answers to collStats for one collection:
\*   full              a document holding wiredTiger / block-manager /
\*                     "file bytes available for reuse" = bytes
\*   no_key            a document in which a key of that path is absent
\*   not_mapping       a document in which a value on that path is not a mapping
\*   OperationFailure  the command is rejected (not authorized, namespace gone)
\*   AutoReconnect     the connection is lost during the command
Responses == {"full", "no_key", "not_mapping", "OperationFailure", "AutoReconnect"}
StatsOutcomes ==
    {[resp |-> "full", bytes |-> v] : v \in Values}
        \cup {[resp |-> r, bytes |-> 0] : r \in Responses \ {"full"}}

RECURSIVE SumLen(_)
SumLen(dbs) == IF dbs = <<>> THEN 0 ELSE Len(Head(dbs).colls) + SumLen(Tail(dbs))

\* number of collections over all databases of the server
TotalCollections(srv) == SumLen(srv.dbs)

----------------------------------------------------------------------------
(* server.py: get_top_reusable_space_collections *)

\* stats["wiredTiger"]["block-manager"]["file bytes available for reuse"]
reusable_space(stats) ==
    CASE stats.resp = "full" -> [exc |-> "", value |-> stats.bytes]
      [] stats.resp = "no_key" -> [exc |-> "KeyError", value |-> 0]
      [] stats.resp = "not_mapping" -> [exc |-> "TypeError", value |-> 0]

\* Mutant: the OperationFailure handler is missing.
collStats_uncaught(db_name, coll, results) ==
    IF coll.resp \in {"OperationFailure", "AutoReconnect"}
    THEN [exc |-> coll.resp, results |-> results]
    ELSE LET reusable == reusable_space(coll)
         IN  CASE reusable.exc = "" ->
                    [exc |-> "",
                     results |-> Append(results,
                        [database |-> db_name, collection |-> coll.name,
                         reusable_bytes |-> reusable.value])]
               [] reusable.exc = "KeyError" -> [exc |-> "", results |-> results]
               [] OTHER -> [exc |-> reusable.exc, results |-> results]

\* Mutant: the value is clamped at zero before it is stored.
collStats_clamped(db_name, coll, results) ==
    IF coll.resp = "OperationFailure"
    THEN [exc |-> "", results |-> results]
    ELSE IF coll.resp = "AutoReconnect"
    THEN [exc |-> "AutoReconnect", results |-> results]
    ELSE LET reusable == reusable_space(coll)
         IN  CASE reusable.exc = "" ->
                    [exc |-> "",
                     results |-> Append(results,
                        [database |-> db_name, collection |-> coll.name,
                         reusable_bytes |-> Max(0, reusable.value)])]
               [] reusable.exc = "KeyError" -> [exc |-> "", results |-> results]
               [] OTHER -> [exc |-> reusable.exc, results |-> results]

\* The body of the inner loop, lines 62-69: the exception that leaves it
\* ("" for none) and the results list afterwards.
collStats_step(db_name, coll, results) ==
    IF coll.resp = "OperationFailure"
    THEN [exc |-> "", results |-> results]               \* except OperationFailure
    ELSE IF coll.resp = "AutoReconnect"
    THEN [exc |-> "AutoReconnect", results |-> results]  \* no handler
    ELSE LET reusable == reusable_space(coll)
         IN  CASE reusable.exc = "" ->
                    [exc |-> "",
                     results |-> Append(results,
                        [database |-> db_name, collection |-> coll.name,
                         reusable_bytes |-> reusable.value])]
               [] reusable.exc = "KeyError" -> [exc |-> "", results |-> results]
               [] OTHER -> [exc |-> reusable.exc, results |-> results]  \* no handler

\* for coll_name in db.list_collection_names(): ...
RECURSIVE scan_collections(_, _, _, _)
scan_collections(db_name, colls, j, results) ==
    IF j > Len(colls)
    THEN [exc |-> "", results |-> results]
    ELSE LET r == collStats_step(db_name, colls[j], results)
         IN  IF r.exc # "" THEN r ELSE scan_collections(db_name, colls, j + 1, r.results)

\* Mutant: a database whose collections cannot be listed is skipped.
RECURSIVE scan_databases_skipping(_, _, _)
scan_databases_skipping(dbs, i, results) ==
    IF i > Len(dbs)
    THEN [exc |-> "", results |-> results]
    ELSE IF dbs[i].listing # "ok"
    THEN scan_databases_skipping(dbs, i + 1, results)
    ELSE LET r == scan_collections(dbs[i].name, dbs[i].colls, 1, results)
         IN  IF r.exc # "" THEN r ELSE scan_databases_skipping(dbs, i + 1, r.results)

\* for db_name in client.list_database_names(): ...
RECURSIVE scan_databases(_, _, _)
scan_databases(dbs, i, results) ==
    IF i > Len(dbs)
    THEN [exc |-> "", results |-> results]
    ELSE IF dbs[i].listing # "ok"
    THEN [exc |-> "OperationFailure", results |-> results]
    ELSE LET r == scan_collections(dbs[i].name, dbs[i].colls, 1, results)
         IN  IF r.exc # "" THEN r ELSE scan_databases(dbs, i + 1, r.results)

\* insert x into the ascending list s behind every element whose key is <= x's
insert_sorted(x, s) ==
    LET p == Cardinality({i \in 1..Len(s) : s[i].reusable_bytes <= x.reusable_bytes})
    IN  SubSeq(s, 1, p) \o <<x>> \o SubSeq(s, p + 1, Len(s))

\* a stable ascending sort by reusable_bytes
RECURSIVE sort_ascending(_)
sort_ascending(s) ==
    IF s = <<>> THEN <<>>
    ELSE insert_sorted(s[Len(s)], sort_ascending(SubSeq(s, 1, Len(s) - 1)))

\* Mutant: reverse=True is dropped.
list_sort_no_reverse(s) == sort_ascending(s)

\* Mutant: sort ascending and reverse the outcome, which turns ties around.
list_sort_then_reverse(s) == Reverse(sort_ascending(s))

\* results.sort(key=lambda x: x["reusable_bytes"], reverse=True): list.sort
\* reverses the list, sorts it stably and reverses it again, so that equal
\* keys keep their order.
list_sort_reverse(s) == Reverse(sort_ascending(Reverse(s)))

\* Mutant: the slice is one too long.
slice_one_more(s, n) == SubSeq(s, 1, Min(n + 1, Len(s)))

\* s[:n] of a list
slice_to(s, n) ==
    IF n >= 0 THEN SubSeq(s, 1, Min(n, Len(s)))
    ELSE SubSeq(s, 1, Max(Len(s) + n, 0))

Returned(kind, list, text) == [kind |-> kind, list |-> list, text |-> text]

\* get_top_reusable_space_collections(connection_string, top_n) run with cache
\* gc and environment e against srv.  eager: MongoClient() itself notices an
\* unreachable server and raises ConnectionFailure; otherwise the first
\* request does, with ServerSelectionTimeoutError.
top_reusable(connection_string, top_n, eager, gc, e, srv) ==
    LET cfg == resolve(connection_string, gc, e)
        scan == scan_databases(srv.dbs, 1, <<>>)
        out ==
            IF cfg.exc # ""
            THEN [ret |-> Returned("raise", <<>>, cfg.exc), opened |-> 0]
            ELSE IF ~srv.up /\ eager
            THEN [ret |-> Returned("str", <<>>, "Failed to connect to MongoDB"),
                  opened |-> 0]
            ELSE IF ~srv.up
            THEN [ret |-> Returned("raise", <<>>, "ServerSelectionTimeoutError"),
                  opened |-> 1]
            ELSE IF ~srv.list_dbs_ok
            THEN [ret |-> Returned("raise", <<>>, "OperationFailure"), opened |-> 1]
            ELSE IF scan.exc # ""
            THEN [ret |-> Returned("raise", <<>>, scan.exc), opened |-> 1]
            ELSE [ret |-> Returned("list",
                                   slice_to(list_sort_reverse(scan.results), top_n), ""),
                  opened |-> 1]
    IN  [cfg |-> cfg] @@ out

\* list_databases(connection_string)
databases_listed(connection_string, eager, gc, e, srv) ==
    LET cfg == resolve(connection_string, gc, e)
        out ==
            IF cfg.exc # ""
            THEN [ret |-> Returned("raise", <<>>, cfg.exc), opened |-> 0]
            ELSE IF ~srv.up /\ eager
            THEN [ret |-> Returned("str", <<>>, "Failed to list databases"),
                  opened |-> 0]
            ELSE IF ~srv.up \/ ~srv.list_dbs_ok
            THEN [ret |-> Returned("str", <<>>, "Failed to list databases"),
                  opened |-> 1]
            ELSE [ret |-> Returned("str", <<>>, "listDatabases"), opened |-> 1]
    IN  [cfg |-> cfg] @@ out

----------------------------------------------------------------------------
(* server.py: the OpenAPI tools *)

\* An Optional[int] argument: <<>> is None, <<n>> is the integer n.
\* `if period:` / `not period`
TruthyInt(p) == p # <<>> /\ p[1] # 0

ApiOutcome(ret, clients, requests) ==
    [ret |-> ret, clients |-> clients, requests |-> requests]

\* The shape shared by describe_available_zones, describe_available_resource,
\* describe_vpcs, describe_vswitches, describe_db_instances,
\* describe_db_instance_attribute, describe_replica_set_role and
\* allocate_public_network_address: get_dds_client() or get_vpc_client()
\* (which re-raise what the SDK constructor raises), the request object, then
\* the round trip inside try / except Exception.
openapi_tool(tool, client_ok, remote_ok) ==
    IF ~client_ok
    THEN ApiOutcome(Returned("raise", <<>>, "Exception"), 0, <<>>)
    ELSE IF ~remote_ok
    THEN ApiOutcome(Returned("str", <<>>, "Failed to " \o tool), 1,
                    <<[action |-> tool]>>)
    ELSE ApiOutcome(Returned("dict", <<>>, ""), 1, <<[action |-> tool]>>)

\* get_audit_log_from_sls(region_id, from_, to, query, offset).  dates_ok: from_
\* and to match "%Y-%m-%d %H:%M:%S"; region_known: region_id is a key of
\* region2project.
audit_log(dates_ok, region_known, client_ok, remote_ok) ==
    IF ~dates_ok
    THEN ApiOutcome(Returned("raise", <<>>, "ValueError"), 0, <<>>)
    ELSE IF ~client_ok
    THEN ApiOutcome(Returned("raise", <<>>, "Exception"), 0, <<>>)
    ELSE IF ~region_known        \* KeyError inside the try, before the request
    THEN ApiOutcome(Returned("str", <<>>, "Failed to get logs from sls"), 1, <<>>)
    ELSE IF ~remote_ok
    THEN ApiOutcome(Returned("str", <<>>, "Failed to get logs from sls"), 1,
                    <<[action |-> "GetLogs"]>>)
    ELSE ApiOutcome(Returned("dict", <<>>, ""), 1, <<[action |-> "GetLogs"]>>)

\* Mutant: the test of lines 464-465 is missing.
instance_created_unchecked(charge_type, period, client_ok, remote_ok) ==
    IF ~client_ok
    THEN ApiOutcome(Returned("raise", <<>>, "Exception"), 0, <<>>)
    ELSE LET request ==
                 [action |-> "CreateDBInstance", charge_type |-> charge_type,
                  period |-> IF TruthyInt(period) THEN period ELSE <<>>]
         IN  IF ~remote_ok
             THEN ApiOutcome(Returned("str", <<>>, "Failed to create db instance"),
                             1, <<request>>)
             ELSE ApiOutcome(Returned("dict", <<>>, ""), 1, <<request>>)

\* create_db_instance(..., charge_type, ..., period, ...).  `raise "period is
\* required ..."` raises a str, which Python answers with TypeError.
instance_created(charge_type, period, client_ok, remote_ok) ==
    IF charge_type = "PrePaid" /\ ~TruthyInt(period)
    THEN ApiOutcome(Returned("raise", <<>>, "TypeError"), 0, <<>>)
    ELSE IF ~client_ok
    THEN ApiOutcome(Returned("raise", <<>>, "Exception"), 0, <<>>)
    ELSE LET request ==
                 [action |-> "CreateDBInstance", charge_type |-> charge_type,
                  period |-> IF TruthyInt(period) THEN period ELSE <<>>]
         IN  IF ~remote_ok
             THEN ApiOutcome(Returned("str", <<>>, "Failed to create db instance"),
                             1, <<request>>)
             ELSE ApiOutcome(Returned("dict", <<>>, ""), 1, <<request>>)

----------------------------------------------------------------------------
(* Inputs *)

\* connection_string arguments: absent, or an explicit descriptor
ConnectionStrings == {PyNone, "mongodb://x"}
TopNs == (-1)..MaxTopN
\* def get_top_reusable_space_collections(connection_string, top_n=10)
DefaultTopN == 10

\* values of the environment variables: unset, empty, set
CSValues == {PyNone, "", "mongodb://a", "mongodb://b"}
ParamValues == {PyNone, "", "a"}
EnvValues(name) == IF name = CS THEN CSValues ELSE ParamValues

EnvUnset == [n \in EnvNames |-> PyNone]
EnvWithCS == [EnvUnset EXCEPT ![CS] = "mongodb://a"]

EmptyServer == [up |-> TRUE, list_dbs_ok |-> TRUE, dbs |-> <<>>]
DownServer == [up |-> FALSE, list_dbs_ok |-> TRUE, dbs |-> <<>>]
DeniedServer == [up |-> TRUE, list_dbs_ok |-> FALSE, dbs |-> <<>>]
OneCollectionServer ==
    [up |-> TRUE, list_dbs_ok |-> TRUE,
     dbs |-> <<[name |-> 1, listing |-> "ok",
                colls |-> <<[name |-> 1, resp |-> "full", bytes |-> 1]>>]>>]

\* Where an unreachable server is noticed: by MongoClient() itself (TRUE) or by
\* the first request (FALSE).  A reachable server leaves nothing to notice.
Detections(srv) == IF srv.up THEN {FALSE} ELSE BOOLEAN

\* the tools of the shape openapi_tool
OpenApiTools ==
    {"describe_available_zones", "describe_available_resource", "describe_vpcs",
     "describe_vswitches", "describe_db_instances", "describe_db_instance_attribute",
     "describe_replica_set_role", "allocate_public_network_address"}

\* charge_type: "Values: PrePaid, PostPaid"
ChargeTypes == {"PrePaid", "PostPaid"}
\* period: None, or a number of months
Periods == {<<>>} \cup {<<n>> : n \in 0..MaxPeriod}

NoApiCall == [charge_type |-> "", period |-> <<>>, dates_ok |-> TRUE,
              region_known |-> TRUE, client_ok |-> TRUE, remote_ok |-> TRUE]
NoApiTrace == [clients |-> 0, requests |-> <<>>]

NoCall == [tool |-> "none", connection_string |-> PyNone, top_n |-> 0]
NoConfigRet == [called |-> FALSE, exc |-> "", ret |-> NoneConfig,
                global_config |-> NoneConfig]
NoResult == Returned("none", <<>>, "")

----------------------------------------------------------------------------
(* State machine *)

InitProcess ==
    /\ global_config = NoneConfig
    /\ call = NoCall
    /\ config_ret = NoConfigRet
    /\ result = NoResult
    /\ open_clients = 0
    /\ nCalls = 0
    /\ api_call = NoApiCall
    /\ api_trace = NoApiTrace

\* The ranking tool against every server catalog within the bounds.
Init ==
    /\ InitProcess
    /\ env = EnvWithCS
    /\ server \in {EmptyServer, DownServer, DeniedServer}

\* The tools under a changing environment, against a few servers.
InitCfg ==
    /\ InitProcess
    /\ env = EnvUnset
    /\ server \in {OneCollectionServer, DownServer}

\* The server gets one more database, which list_database_names() will name
\* last; listing its collections works or is refused.
create_database ==
    /\ nCalls = 0
    /\ server.up /\ server.list_dbs_ok
    /\ Len(server.dbs) < MaxDbs
    /\ \E listing \in {"ok", "fail"} :
          server' = [server EXCEPT !.dbs =
                        Append(@, [name |-> Len(@) + 1, listing |-> listing,
                                   colls |-> <<>>])]
    /\ UNCHANGED <<env, global_config, call, config_ret, result, open_clients, nCalls,
                   api_call, api_trace>>

\* The newest database gets one more collection, which list_collection_names()
\* will name last, with the answer collStats gives for it.
create_collection ==
    /\ nCalls = 0
    /\ Len(server.dbs) > 0
    /\ server.dbs[Len(server.dbs)].listing = "ok"
    /\ TotalCollections(server) < MaxColls
    /\ \E o \in StatsOutcomes :
          LET d == Len(server.dbs)
          IN  server' = [server EXCEPT !.dbs[d].colls =
                            Append(@, [name |-> Len(@) + 1] @@ o)]
    /\ UNCHANGED <<env, global_config, call, config_ret, result, open_clients, nCalls,
                   api_call, api_trace>>

\* os.environ[name] = v, or its removal, between two tool invocations
setenv ==
    /\ nCalls < MaxCalls
    /\ \E name \in EnvNames : \E v \in EnvValues(name) :
          /\ env[name] # v
          /\ env' = [env EXCEPT ![name] = v]
    /\ UNCHANGED <<global_config, server, call, config_ret, result, open_clients, nCalls,
                   api_call, api_trace>>

\* One invocation of the tool get_top_reusable_space_collections, its top_n
\* taken from top_ns.
get_top_reusable_space_collections(top_ns) ==
    /\ nCalls < MaxCalls
    /\ \E connection_string \in ConnectionStrings : \E top_n \in top_ns :
       \E eager \in Detections(server) :
          LET r == top_reusable(connection_string, top_n, eager,
                                global_config, env, server)
          IN  /\ call' = [tool |-> "get_top_reusable_space_collections",
                          connection_string |-> connection_string,
                          top_n |-> top_n]
              /\ config_ret' = r.cfg
              /\ global_config' = r.cfg.global_config
              /\ result' = r.ret
              /\ open_clients' = open_clients + r.opened
    /\ nCalls' = nCalls + 1
    /\ UNCHANGED <<env, server, api_call, api_trace>>

\* One invocation of the tool list_databases.
list_databases ==
    /\ nCalls < MaxCalls
    /\ \E connection_string \in ConnectionStrings : \E eager \in Detections(server) :
          LET r == databases_listed(connection_string, eager,
                                    global_config, env, server)
          IN  /\ call' = [tool |-> "list_databases",
                          connection_string |-> connection_string,
                          top_n |-> 0]
              /\ config_ret' = r.cfg
              /\ global_config' = r.cfg.global_config
              /\ result' = r.ret
              /\ open_clients' = open_clients + r.opened
    /\ nCalls' = nCalls + 1
    /\ UNCHANGED <<env, server, api_call, api_trace>>

\* What an OpenAPI tool invocation leaves: a tool without connection_string
\* and top_n, its outcome r.
ApiInvoked(tool, r) ==
    /\ nCalls < MaxCalls
    /\ call' = [tool |-> tool, connection_string |-> "", top_n |-> 0]
    /\ result' = r.ret
    /\ api_trace' = [clients |-> r.clients, requests |-> r.requests]
    /\ nCalls' = nCalls + 1
    /\ UNCHANGED <<env, global_config, server, config_ret, open_clients>>

\* One invocation of a describe_* tool or of allocate_public_network_address.
openapi_request ==
    \E tool \in OpenApiTools : \E client_ok, remote_ok \in BOOLEAN :
        /\ api_call' = [NoApiCall EXCEPT !.client_ok = client_ok,
                                         !.remote_ok = remote_ok]
        /\ ApiInvoked(tool, openapi_tool(tool, client_ok, remote_ok))

\* One invocation of the tool get_audit_log_from_sls.
get_audit_log_from_sls ==
    \E dates_ok, region_known, client_ok, remote_ok \in BOOLEAN :
        /\ api_call' = [NoApiCall EXCEPT !.dates_ok = dates_ok,
                                         !.region_known = region_known,
                                         !.client_ok = client_ok,
                                         !.remote_ok = remote_ok]
        /\ ApiInvoked("get_audit_log_from_sls",
                      audit_log(dates_ok, region_known, client_ok, remote_ok))

\* One invocation of the tool create_db_instance.
create_db_instance ==
    \E charge_type \in ChargeTypes : \E period \in Periods :
    \E client_ok, remote_ok \in BOOLEAN :
        /\ api_call' = [NoApiCall EXCEPT !.charge_type = charge_type,
                                         !.period = period,
                                         !.client_ok = client_ok,
                                         !.remote_ok = remote_ok]
        /\ ApiInvoked("create_db_instance",
                      instance_created(charge_type, period, client_ok, remote_ok))

\* the first invocation of the process is the ranking tool
first_ranking == nCalls = 0 /\ get_top_reusable_space_collections(TopNs)

\* A catalog is built, then one ranking request runs against it.
Next ==
    \/ create_database
    \/ create_collection
    \/ first_ranking

Spec == Init /\ [][Next]_vars

NextCfg ==
    \/ setenv
    \/ list_databases
    \/ get_top_reusable_space_collections({DefaultTopN})

SpecCfg == InitCfg /\ [][NextCfg]_vars

\* The registered tools that answer with a mapping or a string.
NextApi ==
    \/ list_databases
    \/ get_audit_log_from_sls
    \/ openapi_request
    \/ create_db_instance

SpecApi == InitCfg /\ [][NextApi]_vars

TypeOK ==
    /\ env \in [EnvNames -> CSValues \cup ParamValues]
    /\ open_clients \in 0..MaxCalls
    /\ nCalls \in 0..MaxCalls
    /\ result.kind \in {"none", "list", "str", "dict", "raise"}

----------------------------------------------------------------------------
(* Vocabulary of the properties *)

\* the last invocation was the ranking tool and it returned a list
Ranked == call.tool = "get_top_reusable_space_collections" /\ result.kind = "list"

\* the (database, collection) places of the server's catalog
Places(srv) ==
    {<<d, c>> : d \in 1..Len(srv.dbs), c \in 1..MaxColls + 1} \cap
    UNION {{<<d, c>> : c \in 1..Len(srv.dbs[d].colls)} : d \in 1..Len(srv.dbs)}

At(srv, pl) == srv.dbs[pl[1]].colls[pl[2]]

\* places whose collStats answer is one of resps
PlacesWith(srv, resps) == {pl \in Places(srv) : At(srv, pl).resp \in resps}

\* entry a was enumerated before entry b: names are listing positions
EnumeratedBefore(a, b) ==
    \/ a.database < b.database
    \/ a.database = b.database /\ a.collection < b.collection

Keeps(resps, coll) == coll.resp \notin resps

\* the server without the collections whose collStats answer is one of resps
Without(srv, resps) ==
    [srv EXCEPT !.dbs =
        [d \in 1..Len(srv.dbs) |->
            [srv.dbs[d] EXCEPT !.colls =
                SelectSeq(@, LAMBDA coll : Keeps(resps, coll))]]]

\* what the last invocation's inputs give against the server srv
SameCallAgainst(srv) ==
    top_reusable(call.connection_string, call.top_n, FALSE, global_config, env, srv).ret

----------------------------------------------------------------------------
(* Properties of the ranking, checked under Spec *)

\* C1: for top_n >= 0 the returned list is sorted descending by reusable_bytes:
\* every entry's reusable_bytes is >= that of the entry after it.
C1_SortedDescending ==
    (Ranked /\ call.top_n >= 0) =>
        \A i \in 1..Len(result.list) - 1 :
            result.list[i].reusable_bytes >= result.list[i + 1].reusable_bytes

\* a list of two or more whose first entry was enumerated after the second
C1_Witness ==
    /\ Ranked /\ call.top_n >= 0
    /\ Len(result.list) >= 2
    /\ result.list[1].reusable_bytes > result.list[2].reusable_bytes
    /\ EnumeratedBefore(result.list[2], result.list[1])

\* C2: two returned entries with equal reusable_bytes stand in the order in
\* which they were enumerated (databases in listing order, then collections
\* in listing order).
C2_TiesKeepEnumerationOrder ==
    Ranked =>
        \A i, j \in 1..Len(result.list) :
            (i < j /\ result.list[i].reusable_bytes = result.list[j].reusable_bytes)
                => EnumeratedBefore(result.list[i], result.list[j])

\* a tie behind a larger entry that was enumerated between the two tied ones
C2_Witness ==
    /\ Ranked
    /\ Len(result.list) = 3
    /\ result.list[2].reusable_bytes = result.list[3].reusable_bytes
    /\ result.list[1].reusable_bytes > result.list[2].reusable_bytes
    /\ EnumeratedBefore(result.list[2], result.list[1])
    /\ EnumeratedBefore(result.list[1], result.list[3])

\* C3: for top_n >= 0 and c successfully inspected collections the returned
\* list has exactly min(top_n, c) entries.
C3_LengthIsMin ==
    (Ranked /\ call.top_n >= 0) =>
        Len(result.list) = Min(call.top_n, Cardinality(PlacesWith(server, {"full"})))

\* a truncation: more candidates than a positive top_n
C3_Witness ==
    /\ Ranked
    /\ call.top_n > 0
    /\ Cardinality(PlacesWith(server, {"full"})) > call.top_n
    /\ Len(result.list) = call.top_n

C5_MalformedStatsSkipped ==
    (call.tool = "get_top_reusable_space_collections"
        /\ PlacesWith(server, {"no_key", "not_mapping"}) # {}) =>
        result = SameCallAgainst(Without(server, {"no_key", "not_mapping"}))

\* C6: a ranking call whose descriptor leads to an unreachable server returns
\* a failure string.
C6_UnreachableGivesString ==
    (call.tool = "get_top_reusable_space_collections"
        /\ config_ret.exc = "" /\ ~server.up) =>
        result.kind = "str"

\* C9: no handle created by a finished call is still open.
C9_HandlesReleased == open_clients = 0

\* C10: every returned entry names an enumerated collection whose statistics
\* were extracted, with exactly the reported value; no collection is returned
\* twice; the candidates are never more than the collections of the server.
C10_EntriesAreCandidates ==
    /\ Ranked =>
          /\ \A i \in 1..Len(result.list) :
                LET pl == <<result.list[i].database, result.list[i].collection>>
                IN  /\ pl \in PlacesWith(server, {"full"})
                    /\ result.list[i].reusable_bytes = At(server, pl).bytes
          /\ \A i, j \in 1..Len(result.list) :
                (result.list[i].database = result.list[j].database
                    /\ result.list[i].collection = result.list[j].collection) => i = j
    /\ Len(scan_databases(server.dbs, 1, <<>>).results) <= TotalCollections(server)

\* a negative value is returned as it was reported
C10_Witness ==
    /\ Ranked
    /\ \E i \in 1..Len(result.list) : result.list[i].reusable_bytes < 0

----------------------------------------------------------------------------
(* Properties of the configuration cache, checked under SpecCfg *)

\* a step in which a tool called get_mongodb_connection_configuration
Resolves == nCalls' # nCalls /\ call'.connection_string = PyNone

\* C7: once a configuration is cached it stays, and every later resolution
\* returns it whatever the environment has become.
C7_CachedConfigReused ==
    [][TruthyConfig(global_config) =>
          /\ global_config' = global_config
          /\ Resolves => /\ config_ret'.exc = ""
                         /\ config_ret'.ret = global_config]_vars

\* the last invocation got the cached connection string although the variable
\* had been changed or removed (no setenv follows the last invocation)
C7_Witness ==
    /\ nCalls = MaxCalls
    /\ call.connection_string = PyNone
    /\ config_ret.exc = ""
    /\ config_ret.ret = global_config
    /\ global_config.form = "str"
    /\ env[CS] # global_config.value

\* C8: with nothing cached, resolution gives the connection string when
\* MONGODB_CONNECTION_STRING is non-empty, else the five fields when all are
\* non-empty, else it raises and leaves the cache unset.
C8_OneResolutionPath ==
    [][(Resolves /\ ~TruthyConfig(global_config)) =>
          IF Truthy(env[CS])
          THEN /\ config_ret'.exc = ""
               /\ config_ret'.ret = StrConfig(env[CS])
               /\ global_config' = config_ret'.ret
          ELSE IF \A i \in 1..Len(Params) : Truthy(env[EnvOf(Params[i])])
          THEN /\ config_ret'.exc = ""
               /\ config_ret'.ret.form = "dict"
               /\ \A i \in 1..Len(Params) :
                     config_ret'.ret[Params[i]] = env[EnvOf(Params[i])]
               /\ global_config' = config_ret'.ret
          ELSE /\ config_ret'.exc = "ValueError"
               /\ result'.kind = "raise"
               /\ global_config' = NoneConfig]_vars

\* resolution failed on a partial set of fields and nothing is cached
C8_Witness ==
    /\ nCalls = MaxCalls
    /\ call.connection_string = PyNone
    /\ config_ret.exc = "ValueError"
    /\ global_config = NoneConfig
    /\ Truthy(env[EnvOf("host")])
    /\ env[EnvOf("port")] = ""

----------------------------------------------------------------------------
(* Properties of the enumeration, checked under Spec *)

\* C13: when listing the databases, or listing the collections of any one
\* database, fails, the ranking call ends with a propagated error: no list and
\* no failure string is returned, whatever was collected before.
C13_EnumerationFailurePropagates ==
    (call.tool = "get_top_reusable_space_collections"
        /\ config_ret.exc = "" /\ server.up
        /\ (~server.list_dbs_ok
              \/ \E d \in 1..Len(server.dbs) : server.dbs[d].listing # "ok")) =>
        result.kind = "raise"

\* the first database gave a candidate, listing the second one failed
C13_Witness ==
    /\ call.tool = "get_top_reusable_space_collections"
    /\ Len(server.dbs) = 2
    /\ server.dbs[2].listing # "ok"
    /\ Len(server.dbs[1].colls) >= 1
    /\ \A c \in 1..Len(server.dbs[1].colls) : server.dbs[1].colls[c].resp = "full"
    /\ result.kind = "raise"
    /\ result.text = "OperationFailure"

----------------------------------------------------------------------------
(* Properties of the OpenAPI tools, checked under SpecApi *)

\* the tools C11 is about
StringAnsweringTools ==
    {"list_databases", "get_audit_log_from_sls", "create_db_instance"}
        \cup OpenApiTools

\* C11: no invocation of list_databases, get_audit_log_from_sls, a describe_*
\* tool, allocate_public_network_address or create_db_instance ends with an
\* exception leaving the tool: every failure comes back as a returned string.
C11_FailuresAreStrings ==
    call.tool \in StringAnsweringTools => result.kind # "raise"

\* period is None or 0
PeriodAbsent == api_call.period \in {<<>>, <<0>>}

\* the invocation sent exactly one create-instance request, with period set
\* exactly when it was provided
OneCreateRequest ==
    /\ Len(api_trace.requests) = 1
    /\ api_trace.requests[1].action = "CreateDBInstance"
    /\ api_trace.requests[1].period = IF PeriodAbsent THEN <<>> ELSE api_call.period

\* the invocation was rejected before an SDK client was built or a request sent
RejectedEarly ==
    /\ result.kind = "raise"
    /\ api_trace.clients = 0
    /\ api_trace.requests = <<>>

\* C12 as claimed: PrePaid without period is rejected before any SDK client is
\* built and sends nothing; every other combination of charge_type and period
\* sends exactly one create-instance request.
C12_AsClaimed ==
    call.tool = "create_db_instance" =>
        IF api_call.charge_type = "PrePaid" /\ PeriodAbsent
        THEN RejectedEarly
        ELSE OneCreateRequest

\* C12, amended: PrePaid without period is rejected before any SDK client is
\* built and sends nothing; every other combination sends exactly one
\* create-instance request when get_dds_client() builds the client, and none
\* when it raises.
C12_PeriodRequiredForPrePaid ==
    call.tool = "create_db_instance" =>
        IF api_call.charge_type = "PrePaid" /\ PeriodAbsent
        THEN RejectedEarly
        ELSE IF api_trace.clients = 0
             THEN api_trace.requests = <<>> /\ result.kind = "raise"
             ELSE api_trace.clients = 1 /\ OneCreateRequest

\* a PrePaid instance with a period: one request, carrying the period
C12_Witness ==
    /\ call.tool = "create_db_instance"
    /\ api_call.charge_type = "PrePaid"
    /\ ~PeriodAbsent
    /\ Len(api_trace.requests) = 1
    /\ api_trace.requests[1].period = api_call.period
    /\ result.kind = "dict"

====
